---- MODULE Spec2Model ----
(***************************************************************************)
(* Prioritisation and signal-aggregation engine of signalnotes:            *)
(* topic frequencies, standing-action detection, macro goals, action       *)
(* scores, the refresh orchestrator and the pruning of suggestions.        *)
(*                                                                         *)
(* Time is counted in ticks of half a day.  Frequencies and scores are     *)
(* real numbers in the program; here they are exact integers in units of   *)
(* 1 / FreqScale (weights in units of 1 / WeightScale, the recency         *)
(* multiplier in units of 1 / (2 * WindowDays)).                           *)
(***************************************************************************)
EXTENDS Integers, Sequences, FiniteSets, TLC

VARIABLES
    now,            \* the clock (new Date()), in ticks
    notes,          \* Note table: id -> [ceoMentioned]
    topics,         \* Topic table: id -> [normKey, frequency]
    mentions,       \* TopicMention table: set of rows
    actions,        \* Action table: id -> row
    actionTopics,   \* ActionTopic table: set of <<actionId, topicId>>
    goals,          \* MacroGoal table: id -> [goal, topicKeys, editedByUser]
    nextId,         \* next fresh row id (cuid())
    pc,             \* position of the refresh request
    outcome,        \* response of the refresh request
    steps,          \* steps the current refresh has started, in order
    hist,           \* observations of the current refresh (history variable)
    call,           \* the last direct call of a service function and its result
    procs,          \* requests served concurrently: id -> position and locals
    evidence        \* Evidence table: set of <<actionId, noteId>>

vars == <<now, notes, topics, mentions, actions, actionTopics, goals, nextId,
          pc, outcome, steps, hist, call, procs, evidence>>

dbVars == <<notes, topics, mentions, actions, actionTopics, goals, nextId,
            evidence>>
refreshVars == <<pc, outcome, steps, hist>>

----------------------------------------------------------------------------
(* Units and program constants *)

TicksPerDay == 2
NULL == -1

WindowDays == 28
RecentDays == 14
WeightScale == 2
FreqScale == 2 * WindowDays * WeightScale

CeoBoost == 1000
StandingBoost == 500
OverdueBoost == 200
TodayBoost == 150
TomorrowBoost == 100
ThisWeekBoost == 50
AgeStep == 5
AgeCap == 100
KeepTop == 10
CeoMultiplier == 3
AskBoost == 2
NudgeBoost == 1

----------------------------------------------------------------------------
(* Bounds of the model *)

MaxTicks == 1          \* ticks the clock may advance
MaxSeed == 2           \* variety of the initial Action table
MaxRounds == 1         \* refreshes after the first one
MaxCompletions == 1    \* entries a completion history may reach
MaxMentions == 7       \* rows the TopicMention table may reach

Now0 == 40 * TicksPerDay

TopicIds == {1, 2}
NoteIds == {1, 2}

----------------------------------------------------------------------------
(* Arithmetic helpers *)

Min(a, b) == IF a <= b THEN a ELSE b

\* integer division rounding toward zero
TruncDiv(x, d) == IF x >= 0 THEN x \div d ELSE -((-x) \div d)

\* date-fns differenceInDays(left, right): full days between, toward zero
differenceInDays(left, right) == TruncDiv(left - right, TicksPerDay)

\* date-fns subDays(date, n)
subDays(date, n) == date - n * TicksPerDay

RECURSIVE SumOver(_, _)
SumOver(S, f) ==
    IF S = {} THEN 0
    ELSE LET x == CHOOSE y \in S : TRUE
         IN f[x] + SumOver(S \ {x}, f)

----------------------------------------------------------------------------
(* Action Scorer: src/lib/openai.ts, calculateActionScore *)

\* topics of an action (include: { topics: { include: { topic } } })
TopicsOf(id) == {t \in DOMAIN topics : <<id, t>> \in actionTopics}

\* 2. topic frequency scores: the reduce over action.topics
RECURSIVE TopicScore(_)
TopicScore(T) ==
    IF T = {} THEN 0
    ELSE LET t == CHOOSE x \in T : TRUE
         IN topics[t].frequency + TopicScore(T \ {t})

\* a plausible slip: independent ifs instead of the else-if chain
DueBoostNoElse(dueDate, t) ==
    IF dueDate = NULL THEN 0
    ELSE LET daysUntil == differenceInDays(dueDate, t)
         IN (IF daysUntil < 0 THEN OverdueBoost ELSE 0)
            + (IF daysUntil = 0 THEN TodayBoost ELSE 0)
            + (IF daysUntil = 1 THEN TomorrowBoost ELSE 0)
            + (IF daysUntil <= 3 THEN ThisWeekBoost ELSE 0)

\* the earlier scorer (daysUntil <= 0 is overdue, no due-today tier)
DueBoostOld(dueDate, t) ==
    IF dueDate = NULL THEN 0
    ELSE LET daysUntil == differenceInDays(dueDate, t)
         IN IF daysUntil <= 0 THEN OverdueBoost
            ELSE IF daysUntil = 1 THEN TomorrowBoost
            ELSE IF daysUntil <= 3 THEN ThisWeekBoost
            ELSE 0

\* 3. urgency boost based on due date
DueBoost(dueDate, t) ==
    IF dueDate = NULL THEN 0
    ELSE LET daysUntil == differenceInDays(dueDate, t)
         IN IF daysUntil < 0 THEN OverdueBoost
            ELSE IF daysUntil = 0 THEN TodayBoost
            ELSE IF daysUntil = 1 THEN TomorrowBoost
            ELSE IF daysUntil <= 3 THEN ThisWeekBoost
            ELSE 0

\* a plausible slip: the cap forgotten
AgeBoostNoCap(createdAt, t) == differenceInDays(t, createdAt) * AgeStep

\* 4. aging boost, capped
AgeBoost(createdAt, t) == Min(differenceInDays(t, createdAt) * AgeStep, AgeCap)

\* a plausible slip: a sentinel instead of 0 for a missing action
calculateActionScoreSentinel(actionId) ==
    IF actionId \notin DOMAIN actions THEN NULL
    ELSE LET action == actions[actionId]
         IN FreqScale * ((IF action.isCeoRelated THEN CeoBoost ELSE 0)
                         + DueBoost(action.dueDate, now)
                         + AgeBoost(action.createdAt, now)
                         + (IF action.isStanding THEN StandingBoost ELSE 0))
            + TopicScore(TopicsOf(actionId))

\* the score of an action, in units of 1 / FreqScale
calculateActionScore(actionId) ==
    IF actionId \notin DOMAIN actions THEN 0
    ELSE LET action == actions[actionId]
         IN FreqScale * ((IF action.isCeoRelated THEN CeoBoost ELSE 0)
                         + DueBoost(action.dueDate, now)
                         + AgeBoost(action.createdAt, now)
                         + (IF action.isStanding THEN StandingBoost ELSE 0))
            + TopicScore(TopicsOf(actionId))

----------------------------------------------------------------------------
(* Topic Frequency Calculator: src/lib/services/topicFrequency.ts *)

\* a plausible slip: gt instead of gte in the window filter
InWindowStrict(m, t) == m.createdAt > subDays(t, WindowDays)

\* where: createdAt gte subDays(new Date(), 28)
InWindow(m, t) == m.createdAt >= subDays(t, WindowDays)

\* a plausible slip: the boosts added before the multiplication
MentionWeightAddFirst(m) ==
    LET w == m.weight + (IF m.isAsk THEN AskBoost * WeightScale ELSE 0)
                      + (IF m.isNudge THEN NudgeBoost * WeightScale ELSE 0)
    IN IF notes[m.noteId].ceoMentioned THEN w * CeoMultiplier ELSE w

\* weight of a mention after the CEO, ask and nudge boosts (1 / WeightScale)
MentionWeight(m) ==
    (IF notes[m.noteId].ceoMentioned THEN m.weight * CeoMultiplier ELSE m.weight)
    + (IF m.isAsk THEN AskBoost * WeightScale ELSE 0)
    + (IF m.isNudge THEN NudgeBoost * WeightScale ELSE 0)

\* Math.floor((Date.now() - createdAt) / msPerDay)
DaysAgo(m, t) == (t - m.createdAt) \div TicksPerDay

\* a plausible slip: the decay running to 0 instead of to one half
RecencyMultiplierFull(daysAgo) == 2 * WindowDays - 2 * daysAgo

\* 1 - (daysAgo / 28) * 0.5, in units of 1 / (2 * WindowDays)
RecencyMultiplier(daysAgo) == 2 * WindowDays - daysAgo

\* weight * recencyMultiplier of one mention, in units of 1 / FreqScale
Contribution(m, t) == MentionWeight(m) * RecencyMultiplier(DaysAgo(m, t))

RECURSIVE SumContributions(_, _)
SumContributions(M, t) ==
    IF M = {} THEN 0
    ELSE LET m == CHOOSE x \in M : TRUE
         IN Contribution(m, t) + SumContributions(M \ {m}, t)

\* the findMany of calculateTopicFrequency on Mention table M at time t
MentionsInWindow(topicId, M, t) ==
    {m \in M : m.topicId = topicId /\ InWindow(m, t)}

FrequencyOf(topicId, M, t) == SumContributions(MentionsInWindow(topicId, M, t), t)

calculateTopicFrequency(topicId) == FrequencyOf(topicId, mentions, now)

\* updateAllTopicFrequencies, the rows of S written
UpdateFrequencies(S) ==
    [t \in DOMAIN topics |->
        IF t \in S THEN [topics[t] EXCEPT !.frequency = calculateTopicFrequency(t)]
        ELSE topics[t]]

----------------------------------------------------------------------------
(* Standing Action Detector: detectStandingActions, getNextMonday *)

\* the findMany of detectStandingActions, grouped under one topic
AskMentions(topicId) ==
    {m \in mentions : /\ m.topicId = topicId
                      /\ InWindow(m, now)
                      /\ notes[m.noteId].ceoMentioned
                      /\ (m.isAsk \/ m.isNudge)}

LastAsk(topicId) ==
    CHOOSE c \in {m.createdAt : m \in AskMentions(topicId)} :
        \A m \in AskMentions(topicId) : m.createdAt <= c

\* a detector that asks for two mentions only
AskPatternTwo(topicId) ==
    /\ Cardinality(AskMentions(topicId)) >= 2
    /\ LastAsk(topicId) >= subDays(now, RecentDays)

\* askCount >= 3 && lastAsk >= fourteenDaysAgo
AskPattern(topicId) ==
    /\ Cardinality(AskMentions(topicId)) >= 3
    /\ LastAsk(topicId) >= subDays(now, RecentDays)

\* a detector that never looks for an existing standing action
ExistingStandingNever(topicId) == FALSE

\* a detector that looks for an open standing action only
ExistingStandingOpen(topicId) ==
    \E a \in DOMAIN actions : /\ actions[a].isStanding
                              /\ actions[a].status # "DONE"
                              /\ <<a, topicId>> \in actionTopics

\* findFirst({ isStanding: true, topics: { some: { topicId } } })
ExistingStanding(topicId) ==
    \E a \in DOMAIN actions : actions[a].isStanding /\ <<a, topicId>> \in actionTopics

\* topics for which detectStandingActions creates a standing action
ToCreate == {t \in DOMAIN topics : AskPattern(t) /\ ~ExistingStanding(t)}

\* startOfDay(new Date()); day 0 of the clock is a Monday
StartOfDay(t) == (t \div TicksPerDay) * TicksPerDay
DayOfWeek(t) == ((t \div TicksPerDay) + 1) % 7

\* a next Monday that is today when today is a Monday
getNextMondaySameDay(t) ==
    LET daysUntilMonday == (8 - DayOfWeek(t)) % 7
    IN StartOfDay(t) + daysUntilMonday * TicksPerDay

getNextMonday(t) ==
    LET daysUntilMonday == IF DayOfWeek(t) = 0 THEN 1 ELSE 8 - DayOfWeek(t)
    IN StartOfDay(t) + daysUntilMonday * TicksPerDay

\* the row written by prisma.action.create in detectStandingActions
NewStanding ==
    [status |-> "ACTIVE", isCeoRelated |-> TRUE, isStanding |-> TRUE,
     dueDate |-> getNextMonday(now), createdAt |-> now, sortScore |-> 0,
     macroGoalId |-> NULL, completionHistory |-> <<>>, completedAt |-> NULL]

\* id given to the action created for topic t when the topics T get one
NewId(t, T) == nextId + Cardinality({u \in T : u < t})

\* Action table after standing actions were created for the topics T
WithStanding(T) ==
    [a \in DOMAIN actions \cup {NewId(t, T) : t \in T} |->
        IF a \in DOMAIN actions THEN actions[a] ELSE NewStanding]

\* ActionTopic table after the topics L (of T) got their link row
WithLinks(T, L) == actionTopics \cup {<<NewId(t, T), t>> : t \in L}

----------------------------------------------------------------------------
(* Goal Inference and Assignment: updateMacroGoals, autoAssignActionsToGoals *)

\* goal lists the collaborator may answer with (result.goals)
InferChoices ==
    { <<>>,
      <<[goal |-> "g1", topicKeys |-> <<"k1">>]>>,
      <<[goal |-> "g1", topicKeys |-> <<"k2">>],
        [goal |-> "g2", topicKeys |-> <<"k1", "k2">>]>>,
      <<[goal |-> "g1", topicKeys |-> <<"k1", "k1", "k1">>],
        [goal |-> "g2", topicKeys |-> <<"k1", "k2">>]>> }

\* what the chat completion call may do: throw, answer without content,
\* answer with content that is not JSON, or answer with a JSON object
Responses ==
    {[kind |-> k, goals |-> <<>>] : k \in {"error", "nocontent", "badjson"}}
    \cup {[kind |-> "json", goals |-> g] : g \in InferChoices}

\* the earlier inference (src/lib/openai.ts): the catch block rethrows
inferMacroGoalsRethrow(response) ==
    IF response.kind = "json"
    THEN [threw |-> FALSE, goals |-> response.goals]
    ELSE [threw |-> TRUE, goals |-> <<>>]

\* inferMacroGoals: the try block around the call and the parse; the catch
\* block logs and returns []
inferMacroGoals(response) ==
    IF response.kind = "json"
    THEN [threw |-> FALSE, goals |-> response.goals]
    ELSE [threw |-> FALSE, goals |-> <<>>]

\* a deleteMany without the where clause
KeptGoalsNone == {}

\* deleteMany({ editedByUser: false })
KeptGoals == {g \in DOMAIN goals : goals[g].editedByUser}

\* MacroGoal table after the delete and the first k creates
ReplaceGoals(inferred, k) ==
    [g \in KeptGoals \cup {nextId + i - 1 : i \in 1..k} |->
        IF g \in KeptGoals THEN goals[g]
        ELSE [goal |-> inferred[g - nextId + 1].goal,
              topicKeys |-> inferred[g - nextId + 1].topicKeys,
              editedByUser |-> FALSE]]

\* Action table after the delete: the optional relation is set to null
ClearDeletedGoals(acts) ==
    [a \in DOMAIN acts |->
        IF acts[a].macroGoalId # NULL /\ acts[a].macroGoalId \notin KeptGoals
        THEN [acts[a] EXCEPT !.macroGoalId = NULL]
        ELSE acts[a]]

\* action.topics.map(t => t.topic.normKey)
ActionTopicKeys(a) == {topics[t].normKey : t \in TopicsOf(a)}

\* goal.topicKeys.filter(key => actionTopicKeys.includes(key)).length
Overlap(keys, a) ==
    Cardinality({i \in 1..Len(keys) : keys[i] \in ActionTopicKeys(a)})

\* the goal the loop of autoAssignActionsToGoals ends with (NULL: none)
BestGoal(G, a) ==
    LET cand == {g \in DOMAIN G : Overlap(G[g].topicKeys, a) > 0}
    IN IF cand = {} THEN NULL
       ELSE CHOOSE g \in cand :
              \A h \in cand :
                 \/ Overlap(G[g].topicKeys, a) > Overlap(G[h].topicKeys, a)
                 \/ /\ Overlap(G[g].topicKeys, a) = Overlap(G[h].topicKeys, a)
                    /\ g <= h

\* Action table after autoAssignActionsToGoals handled the actions of A
AutoAssign(acts, G, A) ==
    [a \in DOMAIN acts |->
        IF /\ a \in A
           /\ acts[a].status \in {"ACTIVE", "SUGGESTED"}
           /\ acts[a].macroGoalId = NULL
           /\ BestGoal(G, a) # NULL
        THEN [acts[a] EXCEPT !.macroGoalId = BestGoal(G, a)]
        ELSE acts[a]]

----------------------------------------------------------------------------
(* recalculateAllActionScores and pruneLoSuggestedActions *)

Open == {a \in DOMAIN actions : actions[a].status \in {"ACTIVE", "SUGGESTED"}}

\* a pass over every action of the table
WithScoresAll(A) ==
    [a \in DOMAIN actions |->
        [actions[a] EXCEPT !.sortScore = calculateActionScore(a)]]

\* Action table after the scores of the actions of A were written
WithScores(A) ==
    [a \in DOMAIN actions |->
        IF a \in A THEN [actions[a] EXCEPT !.sortScore = calculateActionScore(a)]
        ELSE actions[a]]

Suggested == {a \in DOMAIN actions : actions[a].status = "SUGGESTED"}

\* orderBy sortScore desc; rows of equal score come in either id order
Before(a, b, tie) ==
    \/ actions[a].sortScore > actions[b].sortScore
    \/ /\ actions[a].sortScore = actions[b].sortScore
       /\ IF tie THEN a < b ELSE a > b

\* a plausible slip: orderBy sortScore asc
RankOfAsc(a, S, tie) == Cardinality({b \in S : Before(a, b, tie)})

\* 0-based index of a in the sorted findMany result
RankOf(a, S, tie) == Cardinality({b \in S : Before(b, a, tie)})

\* suggestedActions.slice(10), as the set of its ids
ToDismiss(tie) ==
    IF Cardinality(Suggested) > KeepTop
    THEN {a \in Suggested : RankOf(a, Suggested, tie) >= KeepTop}
    ELSE {}

\* Action table after the rows of D were deleted
DeleteActions(D) == [a \in DOMAIN actions \ D |-> actions[a]]

----------------------------------------------------------------------------
(* Refresh Orchestrator: src/app/api/refresh/route.ts, POST *)

\* a plausible slip: pruning moved before the scores are recomputed
StepOrderPruneEarly == <<"frequencies", "standing", "goals", "prune", "scores">>

\* a plausible slip: the scores recomputed before the standing actions exist
StepOrderScoresEarly == <<"frequencies", "scores", "standing", "goals", "prune">>

\* the awaited calls of POST, in program order
StepOrder == <<"frequencies", "standing", "goals", "scores", "prune">>

StepIndex(step) == CHOOSE i \in 1..Len(StepOrder) : StepOrder[i] = step

\* where control goes when a step returns
After(step) ==
    IF StepIndex(step) = Len(StepOrder) THEN "done"
    ELSE StepOrder[StepIndex(step) + 1]

\* a transactional variant: the catch block undoing the request's writes
RollBack(written, atStart) == atStart

\* the catch block only logs and answers 500: what was written stays
KeepWrites(written, atStart) == written

Snapshot ==
    [topics |-> topics, actions |-> actions,
     actionTopics |-> actionTopics, goals |-> goals, nextId |-> nextId]

NoHist ==
    [round |-> 0, alone |-> TRUE, start |-> <<>>, freq |-> <<>>,
     created |-> {}, pruneIn |-> <<>>,
     standingAt |-> NULL, asked |-> {}, createdFor |-> {},
     pre |-> <<>>, inferred |-> <<>>, inferFailed |-> FALSE, thrownBy |-> "none",
     scoredAt |-> NULL]

NoCall == [op |-> "none", arg |-> 0, at |-> 0, value |-> 0, threw |-> FALSE]

\* a step of the running refresh returns normally
Return(step) ==
    /\ steps' = Append(steps, step)
    /\ pc' = After(step)
    /\ outcome' = IF After(step) = "done" THEN "success" ELSE outcome

\* a step of the running refresh throws with the tables as given
Throw(step, tp, ac, at, gl, nid) ==
    /\ steps' = Append(steps, step)
    /\ pc' = "failed"
    /\ outcome' = "error500"
    /\ topics' = KeepWrites(tp, hist.start.topics)
    /\ actions' = KeepWrites(ac, hist.start.actions)
    /\ actionTopics' = KeepWrites(at, hist.start.actionTopics)
    /\ goals' = KeepWrites(gl, hist.start.goals)
    /\ nextId' = KeepWrites(nid, hist.start.nextId)
    /\ UNCHANGED <<now, notes, mentions, call, procs, evidence>>

\* POST /api/refresh arrives; without a valid session it is answered 401
StartRefresh ==
    /\ pc = "idle"
    /\ \E authorized \in BOOLEAN :
         IF authorized
         THEN /\ pc' = StepOrder[1]
              /\ outcome' = "pending"
              /\ steps' = <<>>
              /\ hist' = [NoHist EXCEPT !.start = Snapshot, !.round = hist.round]
         ELSE /\ pc' = "rejected"
              /\ outcome' = "unauthorized"
              /\ UNCHANGED <<steps, hist>>
    /\ UNCHANGED <<now, dbVars, call, procs>>

\* ids of the rows at which a loop over the Action table is made to throw
CutAt == {1, 2, KeepTop + 1}

\* 1. await updateAllTopicFrequencies()
StepFrequencies ==
    /\ pc = "frequencies"
    /\ \/ /\ topics' = UpdateFrequencies(DOMAIN topics)
          /\ hist' = [hist EXCEPT !.freq =
                        [t \in DOMAIN topics |-> calculateTopicFrequency(t)]]
          /\ Return("frequencies")
          /\ UNCHANGED <<now, notes, mentions, actions, actionTopics, goals,
                         nextId, call, procs, evidence>>
       \/ \E S \in SUBSET DOMAIN topics :
            /\ S # DOMAIN topics \/ S = {}
            /\ Throw("frequencies", UpdateFrequencies(S), actions, actionTopics,
                     goals, nextId)
            /\ UNCHANGED hist

\* 2. await detectStandingActions()
StepStanding ==
    /\ pc = "standing"
    /\ \/ /\ actions' = WithStanding(ToCreate)
          /\ actionTopics' = WithLinks(ToCreate, ToCreate)
          /\ nextId' = nextId + Cardinality(ToCreate)
          /\ hist' = [hist EXCEPT
                        !.created = {NewId(t, ToCreate) : t \in ToCreate},
                        !.createdFor = {<<NewId(t, ToCreate), t>> : t \in ToCreate},
                        !.standingAt = now,
                        !.asked = {t \in DOMAIN topics : AskPattern(t)}]
          /\ Return("standing")
          /\ UNCHANGED <<now, notes, mentions, topics, goals, call, procs, evidence>>
       \/ \E T \in SUBSET ToCreate, L \in SUBSET ToCreate :
            /\ L \subseteq T
            /\ Cardinality(T \ L) <= 1
            /\ L # ToCreate \/ ToCreate = {}
            /\ Throw("standing", topics, WithStanding(T), WithLinks(T, L),
                     goals, nextId + Cardinality(T))
            /\ hist' = [hist EXCEPT
                          !.createdFor = {<<NewId(t, T), t>> : t \in T},
                          !.standingAt = now,
                          !.thrownBy = "db"]

\* 3. await updateMacroGoals()
StepGoals ==
    /\ pc = "goals"
    /\ \E response \in Responses :
         LET result == inferMacroGoals(response)
             inferred == result.goals
             G == ReplaceGoals(inferred, Len(inferred))
             seen == [hist EXCEPT !.pre = Snapshot,
                                  !.inferred = inferred,
                                  !.inferFailed = response.kind # "json"]
         IN \/ /\ ~result.threw
               /\ goals' = G
               /\ actions' = AutoAssign(ClearDeletedGoals(actions), G, DOMAIN actions)
               /\ nextId' = nextId + Len(inferred)
               /\ hist' = seen
               /\ Return("goals")
               /\ UNCHANGED <<now, notes, mentions, topics, actionTopics, call, procs,
                   evidence>>
            \/ /\ Throw("goals", topics, actions, actionTopics, goals, nextId)
               /\ hist' = [seen EXCEPT !.thrownBy =
                              IF result.threw THEN "inference" ELSE "db"]
            \/ \E k \in 0..Len(inferred) :
                 /\ ~result.threw
                 /\ Throw("goals", topics, ClearDeletedGoals(actions), actionTopics,
                          ReplaceGoals(inferred, k), nextId + k)
                 /\ hist' = [seen EXCEPT !.thrownBy = "db"]
            \/ \E a \in DOMAIN actions \cap CutAt :
                 /\ ~result.threw
                 /\ Throw("goals", topics,
                          AutoAssign(ClearDeletedGoals(actions), G,
                                     {b \in DOMAIN actions : b < a}),
                          actionTopics, G, nextId + Len(inferred))
                 /\ hist' = [seen EXCEPT !.thrownBy = "db"]

\* 4. await recalculateAllActionScores()
StepScores ==
    /\ pc = "scores"
    /\ \/ /\ actions' = WithScores(Open)
          /\ hist' = [hist EXCEPT !.scoredAt = now]
          /\ Return("scores")
          /\ UNCHANGED <<now, notes, mentions, topics, actionTopics, goals,
                         nextId, call, procs, evidence>>
       \/ \E a \in Open \cap CutAt :
            /\ Throw("scores", topics, WithScores({b \in Open : b < a}),
                     actionTopics, goals, nextId)
            /\ UNCHANGED hist

\* 5. await pruneLoSuggestedActions()
StepPrune ==
    /\ pc = "prune"
    /\ \E tie \in BOOLEAN :
         LET D == ToDismiss(tie)
         IN \/ /\ actions' = DeleteActions(D)
               /\ actionTopics' = {p \in actionTopics : p[1] \notin D}
               /\ hist' = [hist EXCEPT !.pruneIn =
                             [a \in Suggested |-> actions[a].sortScore]]
               /\ Return("prune")
               /\ UNCHANGED <<now, notes, mentions, topics, goals, nextId, call, procs,
                   evidence>>
            \/ \E k \in KeepTop..KeepTop + Cardinality(D) :
                 LET P == {a \in D : RankOf(a, Suggested, tie) < k}
                 IN /\ P # D \/ D = {}
                    /\ Throw("prune", topics, DeleteActions(P),
                             {p \in actionTopics : p[1] \notin P}, goals, nextId)
                    /\ UNCHANGED hist

----------------------------------------------------------------------------
(* Other requests and the clock *)

\* ids the accept request is tried with
AcceptIds == {KeepTop + 1}

\* POST /api/actions/[id]: accept a suggested action; a missing id throws
AcceptAction ==
    /\ \E id \in AcceptIds :
         /\ actions' = IF id \in DOMAIN actions
                       THEN [actions EXCEPT ![id].status = "ACTIVE"]
                       ELSE actions
         /\ hist' = IF pc \in {"idle", "rejected"} \/ actions' = actions THEN hist
                    ELSE [hist EXCEPT !.alone = FALSE]
    /\ UNCHANGED <<now, notes, topics, mentions, actionTopics, goals, nextId,
                   pc, outcome, steps, call, procs, evidence>>

Tick ==
    /\ now < Now0 + MaxTicks
    /\ now' = now + 1
    /\ UNCHANGED <<dbVars, refreshVars, call, procs>>

----------------------------------------------------------------------------
(* Updating an action: PATCH /api/actions/[id] *)

\* the action the requests of the user are about
PatchIds == {KeepTop + 1}

\* the score the first task of a reordered list is given: 10000 - index * 100
ReorderScore == 10000 * FreqScale

\* request bodies: mark done (markDone, handleTaskComplete), edit the text
\* (saveEdit), reorder (handleTaskReorder), set a due date, and a body that
\* puts an action back among the suggestions
PatchBodies ==
    { [status |-> "DONE"],
      [activity |-> "edited"],
      [sortScore |-> ReorderScore],
      [dueDate |-> Now0 + 3 * TicksPerDay],
      [status |-> "SUGGESTED"] }

\* the value of field f after an update whose data hold body[f]; prisma
\* leaves a field alone when the value in data is undefined
Supplied(body, f, old) == IF f \in DOMAIN body THEN body[f] ELSE old

\* an update that never writes sortScore
PatchedKeepScore(row, body) ==
    [row EXCEPT !.status = Supplied(body, "status", @),
                !.dueDate = Supplied(body, "dueDate", NULL),
                !.macroGoalId = Supplied(body, "macroGoalId", @),
                !.completedAt = IF "status" \in DOMAIN body /\ body.status = "DONE"
                                THEN now ELSE NULL]

\* the data of prisma.action.update in PATCH: dueDate is null unless the
\* body holds one, completedAt is null unless the body's status is DONE;
\* activity and priority are not fields of the rows of the model
Patched(row, body) ==
    [row EXCEPT !.status = Supplied(body, "status", @),
                !.dueDate = Supplied(body, "dueDate", NULL),
                !.macroGoalId = Supplied(body, "macroGoalId", @),
                !.sortScore = Supplied(body, "sortScore", @),
                !.completedAt = IF "status" \in DOMAIN body /\ body.status = "DONE"
                                THEN now ELSE NULL]

\* the request is served between two refreshes; an id that is not in the
\* table makes update throw: the answer is 500
PatchAction ==
    /\ pc = "idle"
    /\ \E id \in PatchIds, body \in PatchBodies :
         /\ actions' = IF id \in DOMAIN actions
                       THEN [actions EXCEPT ![id] = Patched(actions[id], body)]
                       ELSE actions
         /\ call' = [op |-> "PATCH", arg |-> id, at |-> now, value |-> body,
                     threw |-> id \notin DOMAIN actions]
    /\ UNCHANGED <<now, notes, topics, mentions, actionTopics, goals, nextId,
                   refreshVars, procs, evidence>>

----------------------------------------------------------------------------
(* Completing a standing action: POST /api/actions/[id]/complete-standing *)

\* ids completeStanding is called with; 0 is never in the table
CompleteIds == {0, 1, 2}

\* a completion that does not look at isStanding
CompletionAppliesToAll(id) == id \in DOMAIN actions

\* if (!action || !action.isStanding) return
CompletionApplies(id) == id \in DOMAIN actions /\ actions[id].isStanding

\* a completion that rolls the due date forward by a week
CompletedRollForward(row) ==
    [row EXCEPT !.status = "DONE",
                !.completedAt = now,
                !.dueDate = row.dueDate + 7 * TicksPerDay,
                !.completionHistory = Append(row.completionHistory, now)]

\* the data of prisma.action.update; lastCompletedAt gets completedAt's value
Completed(row) ==
    [row EXCEPT !.status = "DONE",
                !.completedAt = now,
                !.completionHistory = Append(row.completionHistory, now)]

\* the request is served between two refreshes; call.value is the length
\* of the history written, 0 when nothing is written
CompleteStanding ==
    /\ pc = "idle"
    /\ \E id \in CompleteIds :
         \/ /\ CompletionApplies(id)
            /\ Len(actions[id].completionHistory) < MaxCompletions
            /\ actions' = [actions EXCEPT ![id] = Completed(actions[id])]
            /\ call' = [op |-> "completeStanding", arg |-> id, at |-> now,
                        value |-> Len(actions'[id].completionHistory),
                        threw |-> FALSE]
         \/ /\ ~CompletionApplies(id)
            /\ call' = [op |-> "completeStanding", arg |-> id, at |-> now,
                        value |-> 0, threw |-> FALSE]
            /\ UNCHANGED actions
    /\ UNCHANGED <<now, notes, topics, mentions, actionTopics, goals, nextId,
                   refreshVars, procs, evidence>>

----------------------------------------------------------------------------
(* Extraction of a note: POST /api/notes/[id]/extract *)

\* the note that is extracted again
ExtractedNote == 1

\* the topic the extraction finds in the note
ExtractedTopics == {2}

\* the row written by prisma.topicMention.create; weight 1.0
ExtractedMention(topicId) ==
    [id |-> Cardinality(mentions) + 1, topicId |-> topicId,
     noteId |-> ExtractedNote, createdAt |-> now, weight |-> WeightScale,
     isAsk |-> TRUE, isNudge |-> FALSE]

\* an extraction, served between two refreshes, that detects the CEO, finds
\* one known topic being asked about and no action
ExtractNote ==
    /\ pc = "idle"
    /\ Cardinality(mentions) < MaxMentions
    /\ \E t \in ExtractedTopics :
         mentions' = mentions \cup {ExtractedMention(t)}
    /\ notes' = [notes EXCEPT ![ExtractedNote].ceoMentioned = TRUE]
    /\ UNCHANGED <<now, topics, actions, actionTopics, goals, nextId,
                   refreshVars, call, procs, evidence>>

----------------------------------------------------------------------------
(* The refresh request returns; the next request can be served *)

Respond ==
    /\ pc \in {"done", "failed", "rejected"}
    /\ hist.round < MaxRounds
    /\ pc' = "idle"
    /\ outcome' = "none"
    /\ steps' = <<>>
    /\ hist' = [NoHist EXCEPT !.round = hist.round + 1]
    /\ UNCHANGED <<now, dbVars, call, procs>>

----------------------------------------------------------------------------
(* Direct calls of the two service functions *)

\* ids calculateActionScore is called with; 2 is not in the table
ScoreArgs == {1, 2}

ScoreCall ==
    /\ \E id \in ScoreArgs :
         call' = [op |-> "calculateActionScore", arg |-> id, at |-> now,
                  value |-> calculateActionScore(id), threw |-> FALSE]
    /\ UNCHANGED <<now, dbVars, refreshVars, procs>>

\* ids calculateTopicFrequency is called with; 3 is not in the table
FreqArgs == {1, 2, 3}

FreqCall ==
    /\ \E id \in FreqArgs :
         call' = [op |-> "calculateTopicFrequency", arg |-> id, at |-> now,
                  value |-> calculateTopicFrequency(id), threw |-> FALSE]
    /\ UNCHANGED <<now, dbVars, refreshVars, procs>>

----------------------------------------------------------------------------
(* Initial states *)

Mention(id, topicId, noteId, ticksAgo, weight, isAsk, isNudge) ==
    [id |-> id, topicId |-> topicId, noteId |-> noteId,
     createdAt |-> Now0 - ticksAgo, weight |-> weight,
     isAsk |-> isAsk, isNudge |-> isNudge]

\* note 1 mentions the CEO, note 2 does not
InitNotes == (1 :> [ceoMentioned |-> TRUE]) @@ (2 :> [ceoMentioned |-> FALSE])

InitQuiet ==
    /\ now = Now0
    /\ notes = InitNotes
    /\ pc = "idle"
    /\ outcome = "none"
    /\ steps = <<>>
    /\ hist = NoHist
    /\ call = NoCall
    /\ procs = <<>>
    /\ evidence = {}

Day == TicksPerDay

\* Mention tables the refresh starts from
MentionScenarios ==
    { {},
      \* topic 1: three asks, the latest 10 days ago; topic 2: two asks
      { Mention(1, 1, 1, 10 * Day, 2, TRUE, FALSE),
        Mention(2, 1, 1, 15 * Day, 2, TRUE, FALSE),
        Mention(3, 1, 1, 20 * Day + 1, 3, FALSE, TRUE),
        Mention(4, 2, 1, 1 * Day, 6, TRUE, FALSE),
        Mention(5, 2, 1, 2 * Day, 2, TRUE, TRUE),
        Mention(6, 2, 2, 3 * Day, 2, TRUE, FALSE) },
      \* topic 1: three asks, the latest 15 days ago; topic 2 at the cutoff
      { Mention(1, 1, 1, 15 * Day, 2, TRUE, FALSE),
        Mention(2, 1, 1, 16 * Day, 2, TRUE, FALSE),
        Mention(3, 1, 1, 27 * Day, 2, TRUE, FALSE),
        Mention(4, 2, 2, WindowDays * Day, 4, FALSE, FALSE),
        Mention(5, 2, 2, 29 * Day, 4, FALSE, FALSE) },
      \* both topics show the pattern
      { Mention(1, 1, 1, 1 * Day, 2, TRUE, FALSE),
        Mention(2, 1, 1, 5 * Day, 2, TRUE, FALSE),
        Mention(3, 1, 1, 9 * Day, 2, TRUE, FALSE),
        Mention(4, 1, 1, 13 * Day, 2, TRUE, FALSE),
        Mention(5, 2, 1, 0, 2, FALSE, TRUE),
        Mention(6, 2, 1, 13 * Day + 1, 5, TRUE, FALSE),
        Mention(7, 2, 1, 27 * Day + 1, 2, TRUE, FALSE) } }

DueOptions == <<NULL, Now0 - 3, Now0 - 1, Now0 + 1, Now0 + 2, Now0 + 6>>

\* the i-th row of the initial Action table, nSug rows being suggested
InitAction(i, seed, nSug) ==
    [status |-> IF i <= nSug THEN "SUGGESTED"
                ELSE IF i = nSug + 1 THEN "ACTIVE" ELSE "DONE",
     isCeoRelated |-> (i + seed) % 4 = 0,
     isStanding |-> i > nSug /\ seed = 1,
     dueDate |-> DueOptions[((i + seed) % Len(DueOptions)) + 1],
     createdAt |-> Now0 - ((i * 7 + seed) % 12) * Day - (i % 2),
     sortScore |-> ((i * 5 + seed) % 3) * 1000,
     macroGoalId |-> IF i <= 2 THEN nSug + 2 + i ELSE NULL,
     completionHistory |-> <<>>,
     completedAt |-> IF i = nSug + 2 THEN Now0 - 1 ELSE NULL]

InitLinks(i) ==
    (IF i % 3 = 0 \/ i % 5 = 0 THEN {<<i, 1>>} ELSE {})
    \cup (IF i % 3 = 1 \/ i % 5 = 0 THEN {<<i, 2>>} ELSE {})

Init ==
    /\ InitQuiet
    /\ \E nSug \in {KeepTop - 1, KeepTop, KeepTop + 1, KeepTop + 2},
          seed \in 0..MaxSeed :
         /\ actions = [i \in 1..nSug + 2 |-> InitAction(i, seed, nSug)]
         /\ actionTopics = UNION {InitLinks(i) : i \in 1..nSug + 2}
         /\ goals = (nSug + 3 :> [goal |-> "mine", topicKeys |-> <<"k1">>,
                                  editedByUser |-> TRUE])
                    @@ (nSug + 4 :> [goal |-> "old", topicKeys |-> <<"k2">>,
                                     editedByUser |-> FALSE])
         /\ nextId = nSug + 5
    /\ topics = (1 :> [normKey |-> "k1", frequency |-> 7])
                @@ (2 :> [normKey |-> "k2", frequency |-> 0])
    /\ mentions \in MentionScenarios

Next ==
    \/ StartRefresh
    \/ StepFrequencies
    \/ StepStanding
    \/ StepGoals
    \/ StepScores
    \/ StepPrune
    \/ AcceptAction
    \/ Tick

Spec == Init /\ [][Next]_vars

----------------------------------------------------------------------------
(* Repeated refreshes, completions and extractions on a small table *)

\* topic 1: three asks; topic 2: two asks, a third in a note that does not
\* mention the CEO
CycleMentions ==
    { Mention(1, 1, 1, 1 * Day, 2, TRUE, FALSE),
      Mention(2, 1, 1, 2 * Day, 2, TRUE, FALSE),
      Mention(3, 1, 1, 3 * Day, 2, TRUE, TRUE),
      Mention(4, 2, 1, 1 * Day, 2, TRUE, FALSE),
      Mention(5, 2, 1, 2 * Day, 2, TRUE, FALSE),
      Mention(6, 2, 2, 3 * Day, 2, TRUE, FALSE) }

\* the status of the standing action the table holds for topic 2
StandingSeeds == {"ACTIVE", "DONE"}

InitCycle ==
    /\ InitQuiet
    /\ \E seed \in StandingSeeds :
         /\ actions =
              (1 :> [status |-> "SUGGESTED", isCeoRelated |-> FALSE,
                     isStanding |-> FALSE, dueDate |-> NULL,
                     createdAt |-> Now0 - Day, sortScore |-> 0,
                     macroGoalId |-> NULL, completionHistory |-> <<>>,
                     completedAt |-> NULL])
              @@ (2 :> [status |-> seed, isCeoRelated |-> TRUE,
                        isStanding |-> TRUE,
                        dueDate |-> getNextMonday(Now0 - 8 * Day),
                        createdAt |-> Now0 - 8 * Day, sortScore |-> 0,
                        macroGoalId |-> NULL, completionHistory |-> <<>>,
                        completedAt |->
                            IF seed = "DONE" THEN Now0 - Day ELSE NULL])
         /\ actionTopics = {<<1, 1>>, <<2, 2>>}
    /\ goals = (3 :> [goal |-> "mine", topicKeys |-> <<>>, editedByUser |-> TRUE])
    /\ nextId = 4
    /\ topics = (1 :> [normKey |-> "k1", frequency |-> 0])
                @@ (2 :> [normKey |-> "k2", frequency |-> 0])
    /\ mentions = CycleMentions

NextCycle ==
    \/ StartRefresh
    \/ StepFrequencies
    \/ StepStanding
    \/ StepGoals
    \/ StepScores
    \/ StepPrune
    \/ Respond
    \/ CompleteStanding
    \/ ExtractNote

SpecCycle == InitCycle /\ [][NextCycle]_vars

----------------------------------------------------------------------------
(* Refreshes started on each day of the week *)

\* the ticks of one week
WeekTicks == 7 * TicksPerDay

InitWeek ==
    /\ notes = InitNotes
    /\ pc = "idle"
    /\ outcome = "none"
    /\ steps = <<>>
    /\ hist = NoHist
    /\ call = NoCall
    /\ procs = <<>>
    /\ evidence = {}
    /\ now \in {Now0 + d : d \in 0..WeekTicks - 1}
    /\ actions = <<>>
    /\ actionTopics = {}
    /\ goals = <<>>
    /\ nextId = 1
    /\ topics = (1 :> [normKey |-> "k1", frequency |-> 0])
                @@ (2 :> [normKey |-> "k2", frequency |-> 0])
    /\ mentions = { Mention(1, 1, 1, 0, 2, TRUE, FALSE),
                    Mention(2, 1, 1, 1, 2, TRUE, FALSE),
                    Mention(3, 1, 1, 2, 2, TRUE, FALSE),
                    Mention(4, 2, 1, 0, 2, TRUE, FALSE) }

NextWeek ==
    \/ StartRefresh
    \/ StepFrequencies
    \/ StepStanding
    \/ StepGoals
    \/ StepScores
    \/ StepPrune
    \/ Tick

SpecWeek == InitWeek /\ [][NextWeek]_vars

----------------------------------------------------------------------------
(* A refresh and the requests of a user on a table of two actions *)

\* the status of the action the user works on
UserSeeds == {"SUGGESTED", "ACTIVE", "DONE"}

InitUser ==
    /\ InitQuiet
    /\ \E seed \in UserSeeds :
         actions =
              (2 :> [status |-> "ACTIVE", isCeoRelated |-> TRUE,
                     isStanding |-> TRUE,
                     dueDate |-> getNextMonday(Now0 - 8 * Day),
                     createdAt |-> Now0 - 8 * Day, sortScore |-> 0,
                     macroGoalId |-> NULL, completionHistory |-> <<>>,
                     completedAt |-> NULL])
              @@ (KeepTop + 1 :>
                    [status |-> seed, isCeoRelated |-> FALSE,
                     isStanding |-> FALSE, dueDate |-> Now0 + Day,
                     createdAt |-> Now0 - Day, sortScore |-> 0,
                     macroGoalId |-> NULL, completionHistory |-> <<>>,
                     completedAt |-> IF seed = "DONE" THEN Now0 - 1 ELSE NULL])
    /\ actionTopics = {<<2, 2>>, <<KeepTop + 1, 1>>}
    /\ goals = <<>>
    /\ nextId = KeepTop + 2
    /\ topics = (1 :> [normKey |-> "k1", frequency |-> 0])
                @@ (2 :> [normKey |-> "k2", frequency |-> 0])
    /\ mentions = CycleMentions

NextUser ==
    \/ StartRefresh
    \/ StepFrequencies
    \/ StepStanding
    \/ StepGoals
    \/ StepScores
    \/ StepPrune
    \/ AcceptAction
    \/ PatchAction
    \/ CompleteStanding

SpecUser == InitUser /\ [][NextUser]_vars

----------------------------------------------------------------------------
(* The scorer called on a table of one action *)

DueOffsets == -5..9
AgeOffsets == {0, 1, 10 * Day, 20 * Day - 1, 20 * Day, 30 * Day}

InitScore ==
    /\ InitQuiet
    /\ \E ceo \in BOOLEAN, standing \in BOOLEAN,
          due \in {NULL} \cup {Now0 + k : k \in DueOffsets},
          age \in AgeOffsets :
         actions = (1 :> [status |-> "ACTIVE", isCeoRelated |-> ceo,
                          isStanding |-> standing, dueDate |-> due,
                          createdAt |-> Now0 - age, sortScore |-> 0,
                          macroGoalId |-> NULL, completionHistory |-> <<>>,
                          completedAt |-> NULL])
    /\ actionTopics \in SUBSET {<<1, 1>>, <<1, 2>>}
    /\ \E f \in {0, 84} :
         topics = (1 :> [normKey |-> "k1", frequency |-> f])
                  @@ (2 :> [normKey |-> "k2", frequency |-> 336])
    /\ mentions = {}
    /\ goals = <<>>
    /\ nextId = 2

NextScore == ScoreCall \/ Tick

SpecScore == InitScore /\ [][NextScore]_vars

----------------------------------------------------------------------------
(* The frequency calculator called on a table of one or two mentions *)

InitFreq ==
    /\ InitQuiet
    /\ \E note \in NoteIds, ago \in {0, 3, 55, 56, 57, 58},
          weight \in {2, 5}, ask \in BOOLEAN, nudge \in BOOLEAN :
         \E second \in
              {{}} \cup
              {{Mention(2, t, 1, a, w, k, FALSE)} :
                  t \in TopicIds, a \in {0, 3, 56, 57}, w \in {2, 5}, k \in BOOLEAN} :
            mentions = {Mention(1, 1, note, ago, weight, ask, nudge)} \cup second
    /\ topics = (1 :> [normKey |-> "k1", frequency |-> 0])
                @@ (2 :> [normKey |-> "k2", frequency |-> 0])
    /\ actions = <<>>
    /\ actionTopics = {}
    /\ goals = <<>>
    /\ nextId = 1

NextFreq == FreqCall \/ Tick

SpecFreq == InitFreq /\ [][NextFreq]_vars

----------------------------------------------------------------------------
(* Properties of the refresh orchestrator *)

\* C1: within one refresh the five steps run strictly in the order
\* frequencies, standing actions, macro goals, scores, pruning: the steps
\* run so far are always a prefix of that order, the step control is at is
\* the next one of it, and a refresh that completed ran all five, pruning last.
C1_StepsInOrder ==
    LET order == <<"frequencies", "standing", "goals", "scores", "prune">>
    IN /\ Len(steps) <= 5
       /\ \A i \in 1..Len(steps) : steps[i] = order[i]
       /\ \A i \in 1..5 : pc = order[i] => Len(steps) = i - 1
       /\ pc = "done" => Len(steps) = 5 /\ steps[5] = "prune"
       /\ pc \in {"idle", "rejected"} => steps = <<>>

C1_Witness == pc = "done" /\ outcome = "success" /\ Len(steps) = 5

\* suggested actions when the refresh started
SuggestedAtStart ==
    {a \in DOMAIN hist.start.actions : hist.start.actions[a].status = "SUGGESTED"}

\* C2: after a refresh that ran alone and succeeded, starting from more than
\* 10 suggested actions exactly 10 remain, the others are deleted, and every
\* survivor's sortScore is at least that of every deleted one; starting from
\* 10 or fewer suggested actions none is deleted.
C2_PruneKeepsTopTen ==
    (pc = "done" /\ hist.alone) =>
        IF Cardinality(SuggestedAtStart) > 10
        THEN /\ Cardinality(Suggested) = 10
             /\ Suggested \subseteq SuggestedAtStart
             /\ \A d \in SuggestedAtStart \ Suggested :
                  /\ d \notin DOMAIN actions
                  /\ \A k \in Suggested : actions[k].sortScore >= hist.pruneIn[d]
        ELSE /\ Suggested = SuggestedAtStart
             /\ DOMAIN hist.start.actions \subseteq DOMAIN actions

C2_Witness ==
    /\ pc = "done"
    /\ hist.alone
    /\ Cardinality(SuggestedAtStart) = 12
    /\ Cardinality(Suggested) = 10
    /\ \E d \in SuggestedAtStart \ Suggested, k \in Suggested :
         actions[k].sortScore > hist.pruneIn[d]

\* C3: when a step of a refresh throws, the caller gets a failure, no later
\* step of that refresh runs, and what the earlier steps wrote stays: the
\* frequencies of step 1 and the standing actions created by step 2.
C3_FailureKeepsWrites ==
    /\ [](pc = "failed" =>
            /\ outcome = "error500"
            /\ Len(steps) >= 1
            /\ (hist.alone /\ Len(steps) >= 2) =>
                 \A t \in DOMAIN topics : topics[t].frequency = hist.freq[t]
            /\ (hist.alone /\ Len(steps) >= 3) =>
                 \A a \in hist.created :
                    /\ a \in DOMAIN actions
                    /\ actions[a].isStanding
                    /\ \E t \in DOMAIN topics : <<a, t>> \in actionTopics)
    /\ [][pc = "failed" =>
            (pc' = "failed" /\ steps' = steps /\ outcome' = outcome)]_vars

C3_Witness ==
    /\ pc = "failed"
    /\ Len(steps) >= 3
    /\ hist.alone
    /\ hist.created # {}
    /\ topics[1].frequency # hist.start.topics[1].frequency

----------------------------------------------------------------------------
(* Properties of the Action Scorer *)

ScoreReturned == call.op = "calculateActionScore" /\ call.arg \in DOMAIN actions

\* the parts of the score that do not depend on the due date, at the call
ScoreWithoutDue ==
    LET a == actions[call.arg]
        daysSinceCreated == differenceInDays(call.at, a.createdAt)
    IN FreqScale * ((IF a.isCeoRelated THEN 1000 ELSE 0)
                    + (IF a.isStanding THEN 500 ELSE 0)
                    + (IF daysSinceCreated * 5 < 100 THEN daysSinceCreated * 5 ELSE 100))
       + (IF <<call.arg, 1>> \in actionTopics THEN topics[1].frequency ELSE 0)
       + (IF <<call.arg, 2>> \in actionTopics THEN topics[2].frequency ELSE 0)

\* the due-date part of the returned score
DuePart == call.value - ScoreWithoutDue

DaysUntilAtCall == differenceInDays(actions[call.arg].dueDate, call.at)

\* C4: for an existing action the score is 1000 if important-party related,
\* plus 500 if standing, plus the frequencies of its linked topics, plus its due-date
\* contribution, plus min(daysSinceCreated * 5, 100); important-party,
\* standing, due today, created 10 days ago, no topics gives 1700.
C4_ScoreIsSum ==
    ScoreReturned =>
        LET a == actions[call.arg]
        IN /\ call.value = ScoreWithoutDue + FreqScale * DueBoost(a.dueDate, call.at)
           /\ ( /\ a.isCeoRelated
                /\ a.isStanding
                /\ a.dueDate # NULL
                /\ DaysUntilAtCall = 0
                /\ differenceInDays(call.at, a.createdAt) = 10
                /\ \A t \in DOMAIN topics : <<call.arg, t>> \notin actionTopics )
              => call.value = 1700 * FreqScale

C4_Witness ==
    /\ ScoreReturned
    /\ actions[call.arg].isCeoRelated
    /\ actions[call.arg].isStanding
    /\ actions[call.arg].dueDate = call.at
    /\ differenceInDays(call.at, actions[call.arg].createdAt) = 10
    /\ \A t \in DOMAIN topics : <<call.arg, t>> \notin actionTopics
    /\ call.value = 1700 * FreqScale

\* C5: the due-date contribution is exactly one of 200, 150, 100, 50, 0:
\* overdue, due today, due tomorrow and due within 3 days exclude each
\* other, and no due date or a later due date gives 0.
C5_OneDueBucket ==
    ScoreReturned =>
        /\ DuePart \in {200 * FreqScale, 150 * FreqScale, 100 * FreqScale,
                        50 * FreqScale, 0}
        /\ IF actions[call.arg].dueDate = NULL THEN DuePart = 0
           ELSE /\ DaysUntilAtCall < 0 => DuePart = 200 * FreqScale
                /\ DaysUntilAtCall = 0 => DuePart = 150 * FreqScale
                /\ DaysUntilAtCall = 1 => DuePart = 100 * FreqScale
                /\ DaysUntilAtCall \in {2, 3} => DuePart = 50 * FreqScale
                /\ DaysUntilAtCall > 3 => DuePart = 0

C5_Witness ==
    /\ ScoreReturned
    /\ actions[call.arg].dueDate # NULL
    /\ DaysUntilAtCall < 0
    /\ DuePart = 200 * FreqScale

\* C6 as stated: every action whose due date is earlier than the current
\* time gets +200, whatever the size of the delay.
C6_Original ==
    (ScoreReturned /\ actions[call.arg].dueDate # NULL
        /\ actions[call.arg].dueDate < call.at)
    => DuePart = 200 * FreqScale

\* C6: an action whose due date is a full day or more before the current
\* time gets the overdue +200; one whose due date is before the current time
\* by less than a full day gets the due-today +150.
C6_OverdueByFullDays ==
    (ScoreReturned /\ actions[call.arg].dueDate # NULL
        /\ actions[call.arg].dueDate < call.at)
    => IF call.at - actions[call.arg].dueDate >= TicksPerDay
       THEN DuePart = 200 * FreqScale
       ELSE DuePart = 150 * FreqScale

C6_Witness ==
    /\ ScoreReturned
    /\ actions[call.arg].dueDate # NULL
    /\ actions[call.arg].dueDate = call.at - 1
    /\ DuePart = 150 * FreqScale

\* C7: the scorer called with an id of no action returns 0, raises no
\* error and changes no persisted state.
C7_MissingActionScoresZero ==
    [][(call' # call /\ call'.op = "calculateActionScore") =>
            /\ UNCHANGED dbVars
            /\ call'.arg \notin DOMAIN actions =>
                  (call'.value = 0 /\ ~call'.threw)]_vars

C7_Witness ==
    /\ call.op = "calculateActionScore"
    /\ call.arg \notin DOMAIN actions
    /\ call.value = 0
    /\ ~call.threw

----------------------------------------------------------------------------
(* Properties of the Topic Frequency Calculator *)

FreqReturned == call.op = "calculateTopicFrequency"

MentionsOfCall == {m \in mentions : m.topicId = call.arg}

\* what mention m adds to the returned frequency
Contributed(m) == call.value - FrequencyOf(call.arg, mentions \ {m}, call.at)

\* C8: a mention adds to the frequency exactly when it was created at or
\* after now minus 28 days: one created exactly at the cutoff is counted,
\* one created 29 or more days ago adds 0, and a topic with no mention in
\* the window has frequency 0.
C8_WindowIsInclusive ==
    FreqReturned =>
        /\ \A m \in MentionsOfCall :
             /\ Contributed(m) > 0 <=> m.createdAt >= call.at - 28 * TicksPerDay
             /\ m.createdAt <= call.at - 29 * TicksPerDay => Contributed(m) = 0
        /\ (\A m \in MentionsOfCall : m.createdAt < call.at - 28 * TicksPerDay)
             => call.value = 0

C8_Witness ==
    /\ FreqReturned
    /\ \E m \in MentionsOfCall :
         m.createdAt = call.at - 28 * TicksPerDay /\ Contributed(m) > 0
    /\ \E m \in MentionsOfCall :
         m.createdAt = call.at - 28 * TicksPerDay - 1 /\ Contributed(m) = 0

\* contribution of an in-window mention by the stated formula (1 / FreqScale)
StatedContribution(m) ==
    LET base == IF notes[m.noteId].ceoMentioned THEN 3 * m.weight ELSE m.weight
        boosted == base + (IF m.isAsk THEN 2 * WeightScale ELSE 0)
                        + (IF m.isNudge THEN 1 * WeightScale ELSE 0)
        daysAgo == (call.at - m.createdAt) \div TicksPerDay
    IN boosted * (56 - daysAgo)

\* C9: every in-window mention contributes ((weight, times 3 for an
\* important-party note) + 2 if ask + 1 if nudge) * (1 - (daysAgo / 28) * 0.5),
\* the multiplication by 3 coming before the additions, and the frequency is
\* the sum of these contributions.
C9_ContributionFormula ==
    FreqReturned =>
        LET W == {m \in MentionsOfCall : m.createdAt >= call.at - 28 * TicksPerDay}
        IN /\ \A m \in W : Contributed(m) = StatedContribution(m)
           /\ call.value = SumOver(W, [m \in W |-> StatedContribution(m)])

C9_Witness ==
    /\ FreqReturned
    /\ \E m \in MentionsOfCall :
         /\ notes[m.noteId].ceoMentioned
         /\ m.isAsk
         /\ m.isNudge
         /\ m.weight = 5
         /\ (call.at - m.createdAt) \div TicksPerDay = 1
         /\ Contributed(m) = (15 + 4 + 2) * 55
    /\ Cardinality({m \in MentionsOfCall : Contributed(m) > 0}) = 2

\* C10: of two in-window mentions with the same weight and flags the one
\* with the smaller daysAgo contributes at least as much, and the decay
\* multiplier of an in-window mention lies in [0.5, 1], so that no
\* contribution is negative.
C10_DecayMonotone ==
    FreqReturned =>
        LET W == {m \in MentionsOfCall : m.createdAt >= call.at - 28 * TicksPerDay}
            boosted(m) == StatedContribution(m) \div (56 - DaysAgo(m, call.at))
        IN /\ \A m \in W :
                /\ Contributed(m) >= 0
                /\ 2 * Contributed(m) >= boosted(m) * 56
                /\ Contributed(m) <= boosted(m) * 56
           /\ \A m1 \in W, m2 \in W :
                ( /\ m1.weight = m2.weight
                  /\ m1.isAsk = m2.isAsk
                  /\ m1.isNudge = m2.isNudge
                  /\ notes[m1.noteId].ceoMentioned = notes[m2.noteId].ceoMentioned
                  /\ DaysAgo(m1, call.at) <= DaysAgo(m2, call.at) )
                => Contributed(m1) >= Contributed(m2)

C10_Witness ==
    /\ FreqReturned
    /\ \E m1 \in MentionsOfCall, m2 \in MentionsOfCall :
         /\ m1.weight = m2.weight
         /\ m1.isAsk = m2.isAsk
         /\ m1.isNudge = m2.isNudge
         /\ m1.noteId = m2.noteId
         /\ DaysAgo(m1, call.at) = 0
         /\ DaysAgo(m2, call.at) = 28
         /\ Contributed(m1) = 2 * Contributed(m2)
         /\ Contributed(m2) > 0

----------------------------------------------------------------------------
(* Standing actions *)

\* the standing step of this refresh has run, to its end or to a throw
StandingRan == hist.standingAt # NULL

\* mentions of topic t counted at time at: not older than 28 days, ask or
\* nudge, in a note that mentions the important party
CountedAsks(t, at) ==
    {m \in mentions : /\ m.topicId = t
                      /\ m.createdAt >= at - 28 * TicksPerDay
                      /\ m.createdAt <= at
                      /\ notes[m.noteId].ceoMentioned
                      /\ (m.isAsk \/ m.isNudge)}

\* C11: detectStandingActions creates a standing action for a topic only if
\* the topic has at least 3 ask or nudge mentions of the last 28 days in
\* important-party notes and the most recent of them is not older than 14
\* days; with exactly 2 such mentions, or with 3 whose latest is older than
\* 14 days, none is created.
C11_CreatedOnlyOnPattern ==
    StandingRan =>
        \A c \in hist.createdFor :
            /\ Cardinality(CountedAsks(c[2], hist.standingAt)) >= 3
            /\ \E m \in CountedAsks(c[2], hist.standingAt) :
                 m.createdAt >= hist.standingAt - 14 * TicksPerDay

C11_Witness ==
    /\ StandingRan
    /\ pc = "goals"
    /\ \E c \in hist.createdFor :
         /\ c[1] \in DOMAIN actions
         /\ actions[c[1]].isStanding
         /\ <<c[1], c[2]>> \in actionTopics
    /\ \E t \in DOMAIN topics :
         /\ Cardinality(CountedAsks(t, hist.standingAt)) = 2
         /\ \A c \in hist.createdFor : c[2] # t

\* the standing actions linked to topic t
StandingFor(t) ==
    {a \in DOMAIN actions : actions[a].isStanding /\ <<a, t>> \in actionTopics}

\* C12: over refreshes that follow one another and completeStanding calls,
\* a topic that has a linked standing action, in whatever status, gets no
\* further one, and no topic ever has more than one standing action.
C12_OnePerTopic ==
    [][\A t \in DOMAIN topics :
          /\ Cardinality(StandingFor(t)') <= 1
          /\ StandingFor(t) # {} => StandingFor(t)' = StandingFor(t)]_vars

C12_Witness ==
    /\ hist.round >= 1
    /\ pc = "goals"
    /\ StandingRan
    /\ hist.asked = DOMAIN topics
    /\ hist.created = {}
    /\ \A t \in DOMAIN topics : Cardinality(StandingFor(t)) = 1
    /\ \E t \in DOMAIN topics : \E a \in StandingFor(t) :
         /\ actions[a].createdAt >= Now0
         /\ actions[a].status = "ACTIVE"
    /\ \E t \in DOMAIN topics : \E a \in StandingFor(t) :
         /\ actions[a].status = "DONE"
         /\ call.op = "completeStanding"
         /\ call.arg = a
         /\ call.value = 1

\* the day of week the clock shows at time t, by name
IsSunday(t) == ((t \div TicksPerDay) % 7) = 6
IsMonday(t) == ((t \div TicksPerDay) % 7) = 0
IsWednesday(t) == ((t \div TicksPerDay) % 7) = 2

\* full days between the start of the day of time t and the due date d
DaysAhead(d, t) == (d - (t - (t % TicksPerDay))) \div TicksPerDay

\* C13: the due date of a newly created standing action is the start of the
\* first Monday strictly after the day of creation, 1 to 7 days ahead: 1 day
\* on a Sunday, 7 days on a Monday, 5 days on a Wednesday, and never the day
\* of creation itself.
C13_DueNextMonday ==
    StandingRan =>
        \A c \in hist.createdFor :
            c[1] \in DOMAIN actions =>
                LET due == actions[c[1]].dueDate
                    at == hist.standingAt
                IN /\ due % TicksPerDay = 0
                   /\ IsMonday(due)
                   /\ DaysAhead(due, at) \in 1..7
                   /\ due > at
                   /\ IsSunday(at) => DaysAhead(due, at) = 1
                   /\ IsMonday(at) => DaysAhead(due, at) = 7
                   /\ IsWednesday(at) => DaysAhead(due, at) = 5

C13_Witness ==
    /\ StandingRan
    /\ pc = "goals"
    /\ IsMonday(hist.standingAt)
    /\ hist.standingAt % TicksPerDay = 1
    /\ \E c \in hist.createdFor :
         /\ c[1] \in DOMAIN actions
         /\ actions[c[1]].isStanding
         /\ actions[c[1]].dueDate = hist.standingAt - 1 + 7 * TicksPerDay

\* this step is a completeStanding(id) request that returned
CompletionOf(id) ==
    /\ call' # call
    /\ call'.op = "completeStanding"
    /\ call'.arg = id
    /\ ~call'.threw

C15_CompletionIgnoresOthers ==
    [][\A id \in CompleteIds :
          (/\ call' # call
           /\ call'.op = "completeStanding"
           /\ call'.arg = id
           /\ (id \notin DOMAIN actions \/ ~actions[id].isStanding))
          => /\ ~call'.threw
             /\ UNCHANGED dbVars]_vars

C15_Witness ==
    /\ call.op = "completeStanding"
    /\ call.arg = 1
    /\ call.arg \in DOMAIN actions
    /\ ~actions[call.arg].isStanding
    /\ actions[call.arg].status = "SUGGESTED"
    /\ actions[call.arg].completionHistory = <<>>
    /\ ~call.threw
    /\ call.value = 0

\* the standing actions of topic t that completeStanding had marked done
\* when this refresh started
CompletedAtStart(t) ==
    {a \in DOMAIN hist.start.actions :
        /\ hist.start.actions[a].isStanding
        /\ <<a, t>> \in hist.start.actionTopics
        /\ hist.start.actions[a].status = "DONE"
        /\ hist.start.actions[a].completionHistory # <<>>}

\* the detection of this refresh has returned and found the ask pattern for
\* topic t, whose standing action had been completed before
RecursAfterCompletion(t) ==
    /\ StandingRan
    /\ pc \in {"goals", "scores", "prune", "done"}
    /\ t \in hist.asked
    /\ CompletedAtStart(t) # {}

----------------------------------------------------------------------------
(* Goals *)

\* updateMacroGoals of this refresh has returned
GoalsReturned == pc \in {"scores", "prune", "done"} /\ hist.pre # <<>>

\* the goals that are not user-edited, and the i-th of them by creation
AutoGoals == {g \in DOMAIN goals : ~goals[g].editedByUser}
NthAutoGoal(i) ==
    CHOOSE g \in AutoGoals : Cardinality({h \in AutoGoals : h < g}) = i - 1

\* C17: after updateMacroGoals every goal that was user-edited before the
\* call is still there with the same text, topic keys and flag, every goal
\* that was not user-edited before the call is gone, and the goals that are
\* not user-edited are exactly the goals the inference of this call returned.
C17_GoalsReplaced ==
    GoalsReturned =>
        /\ \A g \in DOMAIN hist.pre.goals :
             IF hist.pre.goals[g].editedByUser
             THEN g \in DOMAIN goals /\ goals[g] = hist.pre.goals[g]
             ELSE g \notin DOMAIN goals
        /\ \A g \in DOMAIN goals :
             goals[g].editedByUser => g \in DOMAIN hist.pre.goals
        /\ Cardinality(AutoGoals) = Len(hist.inferred)
        /\ \A i \in 1..Len(hist.inferred) :
             /\ goals[NthAutoGoal(i)].goal = hist.inferred[i].goal
             /\ goals[NthAutoGoal(i)].topicKeys = hist.inferred[i].topicKeys

C17_Witness ==
    /\ GoalsReturned
    /\ pc = "scores"
    /\ \E g \in DOMAIN hist.pre.goals :
         hist.pre.goals[g].editedByUser /\ g \in DOMAIN goals
    /\ \E g \in DOMAIN hist.pre.goals :
         ~hist.pre.goals[g].editedByUser /\ g \notin DOMAIN goals
    /\ Len(hist.inferred) = 2
    /\ Cardinality(DOMAIN goals) = 3

\* the step that ran last in this refresh
LastStep == IF steps = <<>> THEN "none" ELSE steps[Len(steps)]

\* C18: when the goal-inference collaborator fails, answers without content
\* or answers with content that does not parse, updateMacroGoals does not
\* throw because of it: it goes on with an empty goal list, deletes every
\* goal that is not user-edited, keeps the user-edited goals, and the refresh
\* goes on to scoring and pruning.
C18_InferenceFailureIsEmptyList ==
    hist.inferFailed =>
        /\ hist.thrownBy # "inference"
        /\ hist.inferred = <<>>
        /\ (pc = "failed" /\ LastStep = "goals") => hist.thrownBy = "db"
        /\ pc # "goals"
        /\ hist.thrownBy = "none" =>
             /\ pc \in {"scores", "prune", "done", "failed"}
             /\ AutoGoals = {}
             /\ \A g \in DOMAIN hist.pre.goals :
                  hist.pre.goals[g].editedByUser =>
                      g \in DOMAIN goals /\ goals[g] = hist.pre.goals[g]
             /\ pc = "done" => steps = StepOrder

C18_Witness ==
    /\ hist.inferFailed
    /\ pc = "done"
    /\ outcome = "success"
    /\ steps = StepOrder
    /\ \E g \in DOMAIN hist.pre.goals : ~hist.pre.goals[g].editedByUser
    /\ \E g \in DOMAIN goals : goals[g].editedByUser
    /\ AutoGoals = {}

\* the size of the intersection of the topic keys of goal g, taken as a
\* set, with the keys of the topics action a is linked to
SharedKeys(g, a) ==
    Cardinality({goals[g].topicKeys[i] : i \in 1..Len(goals[g].topicKeys)}
                \cap ActionTopicKeys(a))

\* the actions the assignment of this refresh had to look at: open and
\* without a goal when updateMacroGoals was called
WasUnassigned ==
    {a \in DOMAIN hist.pre.actions :
        /\ hist.pre.actions[a].macroGoalId = NULL
        /\ hist.pre.actions[a].status \in {"ACTIVE", "SUGGESTED"}}

\* C19 as stated: the assignment gives each unassigned active or suggested
\* action the goal whose set of topic keys shares the most keys with the
\* action's topics, the first such goal on a tie, and leaves an action
\* that shares no key with any goal unassigned.
C19_Original ==
    (GoalsReturned /\ pc = "scores") =>
        \A a \in WasUnassigned :
            LET shared == {SharedKeys(g, a) : g \in DOMAIN goals} \cup {0}
                most == CHOOSE n \in shared : \A k \in shared : k <= n
                best == {g \in DOMAIN goals : SharedKeys(g, a) = most}
            IN IF most = 0
               THEN actions[a].macroGoalId = NULL
               ELSE /\ actions[a].macroGoalId \in best
                    /\ \A g \in best : actions[a].macroGoalId <= g

\* C20 as stated: the goal pass of a refresh never clears or changes the
\* goal of an action that had one before the pass, every goal an action is
\* assigned to exists, and a second pass with no new action in between
\* leaves every assignment of the first pass as it was.
C20_Original ==
    (GoalsReturned /\ pc = "scores") =>
        /\ \A a \in DOMAIN hist.pre.actions :
             hist.pre.actions[a].macroGoalId # NULL =>
                 actions[a].macroGoalId = hist.pre.actions[a].macroGoalId
        /\ \A a \in DOMAIN actions :
             actions[a].macroGoalId # NULL =>
                 actions[a].macroGoalId \in DOMAIN goals
        /\ (hist.round >= 1 /\ hist.created = {}) =>
             \A a \in DOMAIN hist.start.actions :
                 hist.start.actions[a].macroGoalId # NULL =>
                     actions[a].macroGoalId = hist.start.actions[a].macroGoalId

----------------------------------------------------------------------------
(* The whole extraction request: POST /api/notes/[id]/extract *)

\* ids the request is made for; 3 is not in the Note table
ExtractIds == {1, 3}

\* the handler's key of a topic name an extracted action lists:
\* topicName.toLowerCase().replace(/[^a-z0-9]/g, '')
NormKeyOfName ==
    [n \in {"K1", "k-3", "Other"} |->
        IF n = "K1" THEN "k1" ELSE IF n = "k-3" THEN "k3" ELSE "other"]

\* an extraction without topics and actions
EmptyResult == [ceo |-> FALSE, topics |-> <<>>, actions |-> <<>>]

\* objects the collaborator may answer with: a known topic and an action,
\* a known and a new topic with an action that also names a topic the answer
\* does not list, the same topic in two entries, and nothing
ExtractionResults ==
    { [ceo |-> TRUE,
       topics |-> <<[normKey |-> "k1", isAsk |-> TRUE]>>,
       actions |-> <<[activity |-> "a1", topics |-> <<"K1">>]>>],
      [ceo |-> FALSE,
       topics |-> <<[normKey |-> "k1", isAsk |-> FALSE],
                    [normKey |-> "k3", isAsk |-> TRUE]>>,
       actions |-> <<[activity |-> "a2", topics |-> <<"k-3", "Other">>]>>],
      [ceo |-> TRUE,
       topics |-> <<[normKey |-> "k1", isAsk |-> TRUE],
                    [normKey |-> "k1", isAsk |-> FALSE]>>,
       actions |-> <<[activity |-> "a1", topics |-> <<"K1">>]>>],
      EmptyResult }

\* what the chat completion call of the extraction may do
ExtractResponses ==
    {[kind |-> k, result |-> EmptyResult] :
        k \in {"error", "nocontent", "badjson"}}
    \cup {[kind |-> "json", result |-> r] : r \in ExtractionResults}

\* an extraction whose catch block answers with an empty result
extractFromNoteSwallow(response) ==
    [threw |-> FALSE,
     result |-> IF response.kind = "json" THEN response.result ELSE EmptyResult]

\* extractFromNote: a failed call, an answer without content and content
\* that JSON.parse rejects all reach the catch block, which logs and rethrows
extractFromNote(response) ==
    IF response.kind = "json"
    THEN [threw |-> FALSE, result |-> response.result]
    ELSE [threw |-> TRUE, result |-> EmptyResult]

\* the topic with a normKey (findUnique), as a set of at most one id
TopicOfKey(tp, key) == {t \in DOMAIN tp : tp[t].normKey = key}

\* the loop over extraction.topics from entry i on: find or create the
\* topic, remember it in topicMap, create the mention with no look at the
\* mentions that exist
RECURSIVE ProcessTopics(_, _, _, _)
ProcessTopics(entries, i, noteId, st) ==
    IF i > Len(entries) THEN st
    ELSE LET e == entries[i]
             found == TopicOfKey(st.topics, e.normKey)
             tid == IF found = {} THEN st.nextId ELSE CHOOSE t \in found : TRUE
         IN  ProcessTopics(entries, i + 1, noteId,
               [topics |-> IF found = {}
                           THEN st.topics @@
                                (tid :> [normKey |-> e.normKey, frequency |-> 0])
                           ELSE st.topics,
                nextId |-> IF found = {} THEN st.nextId + 1 ELSE st.nextId,
                topicMap |-> (e.normKey :> tid) @@ st.topicMap,
                mentions |-> st.mentions \cup
                             {[id |-> Cardinality(st.mentions) + 1,
                               topicId |-> tid, noteId |-> noteId,
                               createdAt |-> now, weight |-> WeightScale,
                               isAsk |-> e.isAsk, isNudge |-> FALSE]}])

\* the row written by prisma.action.create in the extraction
ExtractedAction(e, noteId, ceo) ==
    [status |-> "SUGGESTED", isCeoRelated |-> ceo, isStanding |-> FALSE,
     dueDate |-> NULL, createdAt |-> now, sortScore |-> 0,
     macroGoalId |-> NULL, completionHistory |-> <<>>, completedAt |-> NULL,
     noteId |-> noteId, activity |-> e.activity]

\* the loop over extraction.actions from entry i on: an entry whose
\* activity the note already has an action for is skipped; otherwise the
\* action, its evidence and a link for every listed topic in topicMap
RECURSIVE ProcessActions(_, _, _, _, _, _)
ProcessActions(entries, i, noteId, ceo, topicMap, st) ==
    IF i > Len(entries) THEN st
    ELSE LET e == entries[i]
             existing == \E a \in DOMAIN st.actions :
                            /\ st.actions[a].noteId = noteId
                            /\ st.actions[a].activity = e.activity
             aid == st.nextId
             keys == {NormKeyOfName[e.topics[j]] : j \in 1..Len(e.topics)}
         IN  ProcessActions(entries, i + 1, noteId, ceo, topicMap,
               IF existing THEN st
               ELSE [actions |-> st.actions @@
                                 (aid :> ExtractedAction(e, noteId, ceo)),
                     evidence |-> st.evidence \cup {<<aid, noteId>>},
                     actionTopics |-> st.actionTopics \cup
                         {<<aid, topicMap[k]>> : k \in keys \cap DOMAIN topicMap},
                     nextId |-> st.nextId + 1])

\* the answer of the request and the tables it leaves
Extracted(noteId, response) ==
    LET same == [notes |-> notes, topics |-> topics, mentions |-> mentions,
                 actions |-> actions, evidence |-> evidence,
                 actionTopics |-> actionTopics, nextId |-> nextId]
        x == extractFromNote(response)
        r == x.result
        tp == ProcessTopics(r.topics, 1, noteId,
                [topics |-> topics, nextId |-> nextId, topicMap |-> <<>>,
                 mentions |-> mentions])
        ac == ProcessActions(r.actions, 1, noteId, r.ceo, tp.topicMap,
                [actions |-> actions, evidence |-> evidence,
                 actionTopics |-> actionTopics, nextId |-> tp.nextId])
    IN  IF noteId \notin DOMAIN notes
        THEN [status |-> 404, called |-> FALSE, db |-> same]
        ELSE IF x.threw
        THEN [status |-> 500, called |-> TRUE, db |-> same]
        ELSE [status |-> 200, called |-> TRUE,
              db |-> [notes |-> [notes EXCEPT ![noteId].ceoMentioned = r.ceo],
                      topics |-> tp.topics, mentions |-> tp.mentions,
                      actions |-> ac.actions, evidence |-> ac.evidence,
                      actionTopics |-> ac.actionTopics, nextId |-> ac.nextId]]

\* one extraction request, served as a whole
ExtractRequest ==
    /\ Cardinality(mentions) < MaxMentions
    /\ \E id \in ExtractIds, response \in ExtractResponses :
         LET x == Extracted(id, response)
         IN  /\ notes' = x.db.notes
             /\ topics' = x.db.topics
             /\ mentions' = x.db.mentions
             /\ actions' = x.db.actions
             /\ evidence' = x.db.evidence
             /\ actionTopics' = x.db.actionTopics
             /\ nextId' = x.db.nextId
             /\ call' = [op |-> "extract", arg |-> id, at |-> now,
                         value |-> [status |-> x.status, called |-> x.called,
                                    response |-> response],
                         threw |-> x.status = 500]
    /\ UNCHANGED <<now, goals, refreshVars, procs>>

\* the note was extracted before, or not yet
InitExtract ==
    /\ InitQuiet
    /\ topics = (1 :> [normKey |-> "k1", frequency |-> 0])
                @@ (2 :> [normKey |-> "k2", frequency |-> 0])
    /\ mentions \in {{}, {[id |-> 1, topicId |-> 1, noteId |-> 1,
                           createdAt |-> Now0 - Day, weight |-> WeightScale,
                           isAsk |-> TRUE, isNudge |-> FALSE]}}
    /\ actions = <<>>
    /\ actionTopics = {}
    /\ goals = <<>>
    /\ nextId = 3

NextExtract == ExtractRequest

SpecExtract == InitExtract /\ [][NextExtract]_vars

\* this step is an extraction request
ExtractionOf ==
    /\ call'.op = "extract"
    /\ call' # call \/ mentions' # mentions

\* C23: when the call of the extraction collaborator fails (the call throws,
\* the answer has no content, or the content is not JSON), the request is
\* answered with an error, no Topic, TopicMention, Action, Evidence or
\* ActionTopic row is created, and the note's important-party fields stay.
C23_FailureCreatesNothing ==
    [][(ExtractionOf /\ call'.value.called
                     /\ call'.value.response.kind # "json") =>
           /\ call'.value.status = 500
           /\ UNCHANGED <<topics, mentions, actions, evidence, actionTopics,
                          notes>>]_vars

C23_Witness ==
    /\ call.op = "extract"
    /\ call.value.called
    /\ call.value.response.kind # "json"
    /\ call.value.status = 500
    /\ notes[call.arg].ceoMentioned
    /\ Cardinality(mentions) >= 2
    /\ DOMAIN actions # {}
    /\ evidence # {}

\* mentions of topic t in note n
MentionsOfPair(M, t, n) == Cardinality({m \in M : m.topicId = t /\ m.noteId = n})

\* C26 as stated: an extraction run adds exactly one mention to every
\* (topic, note) pair whose topic it returned and none to any other pair, so
\* that a pair has as many mentions as runs returned its topic; no mention
\* that exists is updated or deleted.
C26_Original ==
    [][ExtractionOf =>
          /\ mentions \subseteq mentions'
          /\ \A t \in DOMAIN topics', n \in DOMAIN notes :
                MentionsOfPair(mentions', t, n) - MentionsOfPair(mentions, t, n)
                  = IF /\ call'.value.status = 200
                       /\ n = call'.arg
                       /\ \E i \in 1..Len(call'.value.response.result.topics) :
                             call'.value.response.result.topics[i].normKey
                               = topics'[t].normKey
                    THEN 1 ELSE 0]_vars

----------------------------------------------------------------------------
(* The scores a refresh leaves *)

\* the scoring formula of action a at time t on the frequencies f
FormulaOn(a, f, t) ==
    FreqScale * ((IF actions[a].isCeoRelated THEN CeoBoost ELSE 0)
                 + DueBoost(actions[a].dueDate, t)
                 + AgeBoost(actions[a].createdAt, t)
                 + (IF actions[a].isStanding THEN StandingBoost ELSE 0))
    + SumOver(TopicsOf(a), f)

\* C24: after a refresh that ran alone and succeeded, the sortScore of every
\* active or suggested action is the scoring formula on the frequencies
\* step 1 of this refresh wrote and the standing flags step 2 left, and a
\* standing action that step 2 created has a sortScore of at least 1500.
C24_ScoresUseRefreshedInputs ==
    (pc = "done" /\ outcome = "success" /\ hist.alone) =>
        /\ \A a \in Open :
              actions[a].sortScore = FormulaOn(a, hist.freq, hist.scoredAt)
        /\ \A a \in hist.created :
              /\ a \in Open
              /\ actions[a].isStanding
              /\ actions[a].sortScore >= (CeoBoost + StandingBoost) * FreqScale

C24_Witness ==
    /\ pc = "done"
    /\ outcome = "success"
    /\ hist.alone
    /\ hist.created # {}
    /\ \E a \in Open \ hist.created :
          /\ actions[a].isStanding
          /\ \E t \in TopicsOf(a) :
                /\ hist.freq[t] # hist.start.topics[t].frequency
                /\ hist.freq[t] > 0

\* C25: a pass of recalculateAllActionScores that returns writes the score
\* of the scorer into every action that is active or suggested when it
\* reads the table, leaves the rows of done actions as they are, and
\* changes no other field and no other table.
C25_OnlyOpenScores ==
    [][(pc = "scores" /\ pc' = After("scores")) =>
          /\ DOMAIN actions' = DOMAIN actions
          /\ \A a \in DOMAIN actions :
                actions'[a] =
                    IF actions[a].status \in {"ACTIVE", "SUGGESTED"}
                    THEN [actions[a] EXCEPT !.sortScore = calculateActionScore(a)]
                    ELSE actions[a]
          /\ UNCHANGED <<notes, topics, mentions, actionTopics, goals,
                         evidence>>]_vars

C25_Witness ==
    /\ pc = After("scores")
    /\ steps # <<>>
    /\ steps[Len(steps)] = "scores"
    /\ \E a \in Open :
          actions[a].sortScore # hist.start.actions[a].sortScore
    /\ \E d \in DOMAIN actions :
          /\ actions[d].status = "DONE"
          /\ actions[d].sortScore # calculateActionScore(d)
          /\ actions[d] = hist.start.actions[d]

----------------------------------------------------------------------------
(* Requests served concurrently, one database call at a time *)

\* the requests that overlap
RaceIds == {1, 2}

\* the standing action the completion requests are for
RaceStanding == 2

\* a request: its kind, its position and what it holds in local variables
RaceRequest(kind, at) ==
    [kind |-> kind, at |-> at, topicsLeft |-> {}, made |-> NULL,
     toDelete |-> <<>>, history |-> <<>>]

At(p, kind, at) == procs[p].kind = kind /\ procs[p].at = at

\* the topic the loop of detectStandingActions is at
TopicAt(p) == CHOOSE t \in procs[p].topicsLeft :
                 \A u \in procs[p].topicsLeft : t <= u

\* where the detection goes when the topics T are left to look at
DetectNext(T) == IF T = {} THEN "goals" ELSE "findFirst"

\* 1. updateAllTopicFrequencies, taken as one step
RaceFrequencies ==
    /\ \E p \in RaceIds :
         /\ At(p, "refresh", "frequencies")
         /\ topics' = UpdateFrequencies(DOMAIN topics)
         /\ procs' = [procs EXCEPT ![p].at = "detectRead"]
    /\ UNCHANGED <<now, notes, mentions, actions, actionTopics, goals, nextId,
                   refreshVars, call, evidence>>

\* 2. detectStandingActions: topicMention.findMany and the grouping; the
\* loop then looks at the topics with the ask pattern
RaceDetectRead ==
    /\ \E p \in RaceIds :
         /\ At(p, "refresh", "detectRead")
         /\ LET T == {t \in DOMAIN topics : AskPattern(t)}
            IN procs' = [procs EXCEPT ![p].topicsLeft = T,
                                      ![p].at = DetectNext(T)]
    /\ UNCHANGED <<now, dbVars, refreshVars, call>>

\* action.findFirst: a topic with a standing action is passed over
RaceFindFirst ==
    /\ \E p \in RaceIds :
         /\ At(p, "refresh", "findFirst")
         /\ LET t == TopicAt(p)
                T == procs[p].topicsLeft \ {t}
            IN procs' = IF ExistingStanding(t)
                        THEN [procs EXCEPT ![p].topicsLeft = T,
                                           ![p].at = DetectNext(T)]
                        ELSE [procs EXCEPT ![p].at = "create"]
    /\ UNCHANGED <<now, dbVars, refreshVars, call>>

\* action.create of the standing action
RaceCreate ==
    /\ \E p \in RaceIds :
         /\ At(p, "refresh", "create")
         /\ actions' = actions @@ (nextId :> NewStanding)
         /\ nextId' = nextId + 1
         /\ procs' = [procs EXCEPT ![p].made = nextId, ![p].at = "link"]
    /\ UNCHANGED <<now, notes, topics, mentions, actionTopics, goals,
                   refreshVars, call, evidence>>

\* actionTopic.create of its link to the topic
RaceLink ==
    /\ \E p \in RaceIds :
         /\ At(p, "refresh", "link")
         /\ LET t == TopicAt(p)
                T == procs[p].topicsLeft \ {t}
            IN /\ actionTopics' = actionTopics \cup {<<procs[p].made, t>>}
               /\ procs' = [procs EXCEPT ![p].topicsLeft = T,
                                         ![p].made = NULL,
                                         ![p].at = DetectNext(T)]
    /\ UNCHANGED <<now, notes, topics, mentions, actions, goals, nextId,
                   refreshVars, call, evidence>>

\* 3. updateMacroGoals, taken as one step
RaceGoals ==
    /\ \E p \in RaceIds, response \in Responses :
         /\ At(p, "refresh", "goals")
         /\ LET inferred == inferMacroGoals(response).goals
                G == ReplaceGoals(inferred, Len(inferred))
            IN /\ goals' = G
               /\ actions' = AutoAssign(ClearDeletedGoals(actions), G,
                                        DOMAIN actions)
               /\ nextId' = nextId + Len(inferred)
         /\ procs' = [procs EXCEPT ![p].at = "scores"]
    /\ UNCHANGED <<now, notes, topics, mentions, actionTopics, refreshVars,
                   call, evidence>>

\* 4. recalculateAllActionScores, taken as one step
RaceScores ==
    /\ \E p \in RaceIds :
         /\ At(p, "refresh", "scores")
         /\ actions' = WithScores(Open)
         /\ procs' = [procs EXCEPT ![p].at = "pruneRead"]
    /\ UNCHANGED <<now, notes, topics, mentions, actionTopics, goals, nextId,
                   refreshVars, call, evidence>>

\* suggestedActions.slice(10) in the order of the findMany
DismissList(tie) ==
    [i \in 1..Cardinality(ToDismiss(tie)) |->
        CHOOSE a \in ToDismiss(tie) :
            RankOf(a, Suggested, tie) = KeepTop + i - 1]

\* 5. pruneLoSuggestedActions: action.findMany of the suggested actions
RacePruneRead ==
    /\ \E p \in RaceIds, tie \in BOOLEAN :
         /\ At(p, "refresh", "pruneRead")
         /\ procs' = [procs EXCEPT
                        ![p].toDelete = DismissList(tie),
                        ![p].at = IF ToDismiss(tie) = {} THEN "finished"
                                  ELSE "delete"]
    /\ UNCHANGED <<now, dbVars, refreshVars, call>>

\* action.delete({ where: { id } }) of the next action of the list; the
\* delete of a row that is gone throws and the request is answered 500
RaceDelete ==
    /\ \E p \in RaceIds :
         /\ At(p, "refresh", "delete")
         /\ LET id == Head(procs[p].toDelete)
                rest == Tail(procs[p].toDelete)
            IN IF id \in DOMAIN actions
               THEN /\ actions' = DeleteActions({id})
                    /\ actionTopics' = {l \in actionTopics : l[1] # id}
                    /\ procs' = [procs EXCEPT
                                   ![p].toDelete = rest,
                                   ![p].at = IF rest = <<>> THEN "finished"
                                             ELSE "delete"]
               ELSE /\ procs' = [procs EXCEPT ![p].at = "failed"]
                    /\ UNCHANGED <<actions, actionTopics>>
    /\ UNCHANGED <<now, notes, topics, mentions, goals, nextId, refreshVars,
                   call, evidence>>

\* handleStandingActionCompletion: action.findUnique and the guard
RaceFindUnique ==
    /\ \E p \in RaceIds :
         /\ At(p, "complete", "findUnique")
         /\ procs' = IF CompletionApplies(RaceStanding)
                     THEN [procs EXCEPT
                             ![p].history =
                                 actions[RaceStanding].completionHistory,
                             ![p].at = "update"]
                     ELSE [procs EXCEPT ![p].at = "finished"]
    /\ UNCHANGED <<now, dbVars, refreshVars, call>>

\* action.update with the history that was read and one more timestamp
RaceUpdate ==
    /\ \E p \in RaceIds :
         /\ At(p, "complete", "update")
         /\ actions' = [actions EXCEPT ![RaceStanding] =
                          Completed([@ EXCEPT !.completionHistory =
                                                  procs[p].history])]
         /\ procs' = [procs EXCEPT ![p].at = "finished"]
    /\ UNCHANGED <<now, notes, topics, mentions, actionTopics, goals, nextId,
                   refreshVars, call, evidence>>

\* ten suggested actions about the CEO and one that is not, and one
\* standing action
RaceRow(i) ==
    [status |-> IF i = RaceStanding THEN "ACTIVE" ELSE "SUGGESTED",
     isCeoRelated |-> i # KeepTop + 1,
     isStanding |-> i = RaceStanding,
     dueDate |-> IF i = RaceStanding THEN getNextMonday(Now0 - Day) ELSE NULL,
     createdAt |-> Now0 - Day, sortScore |-> 0, macroGoalId |-> NULL,
     completionHistory |-> <<>>, completedAt |-> NULL]

\* two requests, each a refresh or a completion, have arrived
InitRace ==
    /\ now = Now0
    /\ notes = InitNotes
    /\ pc = "idle"
    /\ outcome = "none"
    /\ steps = <<>>
    /\ hist = NoHist
    /\ call = NoCall
    /\ evidence = {}
    /\ procs \in [RaceIds -> {RaceRequest("refresh", "frequencies"),
                              RaceRequest("complete", "findUnique")}]
    /\ topics = (1 :> [normKey |-> "k1", frequency |-> 0])
                @@ (2 :> [normKey |-> "k2", frequency |-> 0])
    /\ mentions = CycleMentions
    /\ actions = [i \in 1..KeepTop + 2 |-> RaceRow(i)]
    /\ actionTopics = {<<RaceStanding, 2>>, <<KeepTop + 1, 1>>}
    /\ goals = <<>>
    /\ nextId = KeepTop + 3

NextRace ==
    \/ RaceFrequencies
    \/ RaceDetectRead
    \/ RaceFindFirst
    \/ RaceCreate
    \/ RaceLink
    \/ RaceGoals
    \/ RaceScores
    \/ RacePruneRead
    \/ RaceDelete
    \/ RaceFindUnique
    \/ RaceUpdate
    \/ AcceptAction

SpecRace == InitRace /\ [][NextRace]_vars

\* C27 as stated: with two refresh requests that interleave at every
\* database call, no topic ever has more than one standing action.
C27_Original ==
    \A t \in DOMAIN topics :
        Cardinality({a \in DOMAIN actions :
                        actions[a].isStanding /\ <<a, t>> \in actionTopics}) <= 1

\* C28 as stated: every action a refresh deletes is suggested at the moment
\* of the delete, also when it is accepted between the read and the delete.
C28_Original ==
    [][\A a \in DOMAIN actions \ DOMAIN actions' :
          actions[a].status = "SUGGESTED"]_vars

\* C30 as stated: the completion history of the standing action has one
\* entry for every completion request that has returned, also when the
\* requests overlap.
C30_Original ==
    Len(actions[RaceStanding].completionHistory)
        = Cardinality({p \in RaceIds : At(p, "complete", "finished")})

----------------------------------------------------------------------------
(* Requests of the user *)

\* suggested, active and done in their order
StatusRank(s) == IF s = "SUGGESTED" THEN 1 ELSE IF s = "ACTIVE" THEN 2 ELSE 3

\* C21 as stated: over accept, update, completeStanding and refresh no
\* action moves from done back to active or suggested, nor from active back
\* to suggested.
C21_Original ==
    [][\A a \in DOMAIN actions \cap DOMAIN actions' :
          StatusRank(actions'[a].status) >= StatusRank(actions[a].status)]_vars

\* this step is a PATCH request on action id that was answered with the row
PatchOf(id) ==
    /\ call' # call
    /\ call'.op = "PATCH"
    /\ call'.arg = id
    /\ ~call'.threw

\* C22 as stated: an action is created with the default sortScore and no
\* operation other than the recompute of the scorer writes sortScore.
C22_Original ==
    [][/\ \A a \in DOMAIN actions' \ DOMAIN actions : actions'[a].sortScore = 0
       /\ \A a \in DOMAIN actions \cap DOMAIN actions' :
            actions'[a].sortScore # actions[a].sortScore => pc = "scores"]_vars

\* C22: an action is created with the default sortScore, and sortScore is
\* written by the recompute of the scorer and by an update request whose
\* body holds a sortScore, which becomes the stored value; no other
\* operation writes it.
C22_ScorerOrPatch ==
    [][/\ \A a \in DOMAIN actions' \ DOMAIN actions : actions'[a].sortScore = 0
       /\ \A a \in DOMAIN actions \cap DOMAIN actions' :
            /\ actions'[a].sortScore # actions[a].sortScore =>
                 \/ pc = "scores"
                 \/ PatchOf(a) /\ "sortScore" \in DOMAIN call'.value
            /\ (PatchOf(a) /\ "sortScore" \in DOMAIN call'.value) =>
                 actions'[a].sortScore = call'.value.sortScore]_vars

C22_Witness ==
    /\ call.op = "PATCH"
    /\ ~call.threw
    /\ call.value = [sortScore |-> 10000 * FreqScale]
    /\ call.arg \in DOMAIN actions
    /\ actions[call.arg].sortScore = 10000 * FreqScale
    /\ actions[call.arg].status = "ACTIVE"
    /\ pc = "idle"

\* C29 as stated: an update whose body holds only some fields leaves the
\* other fields as they were: without a due date in the body the due date
\* stays, without a status in the body the completion timestamp stays.
C29_Original ==
    [][\A a \in DOMAIN actions :
          PatchOf(a) =>
              /\ "dueDate" \notin DOMAIN call'.value =>
                     actions'[a].dueDate = actions[a].dueDate
              /\ "status" \notin DOMAIN call'.value =>
                     actions'[a].completedAt = actions[a].completedAt]_vars

====
